---- MODULE Spec2Model ----
(***************************************************************************)
(* Model of server.js: the in-memory job registry (`jobs`), the conversion *)
(* orchestrator (processConversion), the progress simulator               *)
(* (simulateProgress), the download route with its delayed deletion and   *)
(* the periodic cleanup of the downloads directory.                        *)
(*                                                                         *)
(* Node runs every handler, promise continuation and timer callback to    *)
(* completion on one event loop, so each of them is one atomic action.    *)
(* Job objects live on a heap (`heap`); the registry maps a job id to a    *)
(* heap reference, and the closures of processConversion/simulateProgress *)
(* keep the reference they captured when the job was created.              *)
(***************************************************************************)
EXTENDS Integers, Sequences, FiniteSets, Bags

\* ---- bounds of the model ------------------------------------------------
MaxJobs == 2          \* accepted POST /api/convert requests (Spec)
SoloJobs == 1         \* accepted POST /api/convert requests (SpecSolo)
MaxDownloads == 1     \* download transfers / delayed deletions pending at once
Scale == 2            \* the simulator's real-valued progress is kept in 1/Scale
MaxSeconds == 1       \* the clock is read at 0..MaxSeconds s and that far past 1 h
MaxTicks == 1         \* a simulator is followed up to 5 * MaxTicks past its start (Spec)
MaxRetries == 2       \* download transfers / delayed deletions pending at once (SpecLife)

\* ---- program constants --------------------------------------------------
GracePeriod == 30000
RetentionAge == 3600000
StartProgress == 5
CeilingProgress == 90
MetaProgress == 20
DoneProgress == 100
RandomRange == 5
TickInterval == 1000
CleanupInterval == 1000

VARIABLES
    now,        \* Date.now()
    jobs,       \* the registry: job id -> heap reference
    heap,       \* the job objects, in creation order
    conv,       \* per job object: where its processConversion chain stands
    sim,        \* per job object: the closure of simulateProgress: its local
                \* `progress` (in 1/Scale) and when its setInterval was called
    files,      \* the downloads directory: file name -> mtime
    transfers,  \* res.download transfers in flight (bag of job ids)
    delTimers,  \* pending setTimeout deletions (bag of [id, due])
    calls,      \* per job object: the calls made for it so far, in program
                \* order: res.json, setInterval, the provider calls, clearInterval
    resp        \* what the step just taken answered (its status code) or
                \* logged with console.error; NoResponse if neither

vars == <<now, jobs, heap, conv, sim, files, transfers, delTimers, calls, resp>>
state == <<now, jobs, heap, conv, sim, files, transfers, delTimers, calls>>

\* ---- strings ------------------------------------------------------------
\* Strings the code inspects are sequences of characters.
YoutubeCom == <<"y","o","u","t","u","b","e",".","c","o","m","/">>
YoutuBe == <<"y","o","u","t","u",".","b","e","/">>
Mp3Ext == <<".","m","p","3">>

\* String.prototype.includes
Includes(s, sub) ==
    \E i \in 1..(Len(s) - Len(sub) + 1) :
        \A j \in 1..Len(sub) : s[i + j - 1] = sub[j]

\* ValidUrl with the host markers matched without their trailing slash
ValidUrlNoSlash(u) ==
    /\ u.given
    /\ u.text # <<>>
    /\ \/ Includes(u.text, SubSeq(YoutubeCom, 1, Len(YoutubeCom) - 1))
       \/ Includes(u.text, SubSeq(YoutuBe, 1, Len(YoutuBe) - 1))

\* the validation of both POST routes: the negation of the `if` condition
ValidUrl(u) ==
    /\ u.given
    /\ u.text # <<>>
    /\ (Includes(u.text, YoutubeCom) \/ Includes(u.text, YoutuBe))

Digit(d) == <<"0","1","2","3","4","5","6","7","8","9">>[d + 1]

\* Number.prototype.toString (base 10) of a non-negative integer
RECURSIVE NumToString(_)
NumToString(n) ==
    IF n < 10 THEN <<Digit(n)>>
    ELSE NumToString(n \div 10) \o <<Digit(n % 10)>>

\* `${jobId}.mp3`, the base name of filePath / outputPath
ArtifactName(jobId) == jobId \o Mp3Ext

\* path.parse(file).name: the base name without its last extension
ParseName(file) ==
    LET dots == {i \in 2..Len(file) : file[i] = "."}
    IN  IF dots = {} THEN file
        ELSE SubSeq(file, 1, (CHOOSE i \in dots : \A j \in dots : j <= i) - 1)

WordChars == {"A","b","C","d","_","7"}
SpaceChars == {" "}

\* info.title.replace(/[^\w\s]/gi, '')
CleanTitle(t) == SelectSeq(t, LAMBDA c : c \in WordChars \cup SpaceChars)

UnknownTitle == <<"U","n","k","n","o","w","n"," ","T","i","t","l","e">>
Undefined == "undefined"
DefaultQuality == "192"

\* ---- inputs -------------------------------------------------------------
UrlInputs ==
    { [given |-> FALSE, text |-> <<>>],
      [given |-> TRUE, text |-> <<>>],
      [given |-> TRUE, text |-> <<"e","x",".","c","o","m","/","v">>],
      [given |-> TRUE, text |-> <<"y","o","u","t","u","b","e",".","c","o","m">>],
      [given |-> TRUE, text |-> <<"y","o","u","t","u","b","e",".","c","o","m","/","w">>],
      [given |-> TRUE, text |-> <<"y","o","u","t","u",".","b","e","/","x">>] }
QualityInputs == {Undefined, "320"}
\* info.title as the provider returns it; <<>> is a missing or empty title
TitleInputs == {<<>>, <<"A","!","b">>}
MetaError == "metadata failed"
ExtractError == "extraction failed"

\* Math.random() * 5, in units of 1/Scale: a value in [0, 5)
RandIncs == {0, RandomRange * Scale - 1}

\* the instants the clock is observed at
Times ==
    {k * TickInterval : k \in 0..MaxSeconds}
        \cup {RetentionAge + MaxSeconds * TickInterval}

\* ---- the registry (a Map) -----------------------------------------------
MapHas(m, k) == k \in DOMAIN m
MapSet(m, k, v) == [x \in DOMAIN m \cup {k} |-> IF x = k THEN v ELSE m[x]]
MapDelete(m, k) == [x \in DOMAIN m \ {k} |-> m[x]]

NoResponse == [op |-> "none", code |-> 0]
ErrorLogged == [op |-> "console.error", code |-> 0]

Refs == 1..Len(heap)
Terminal(j) == j.status = "completed" \/ j.status = "error"

Init ==
    /\ now = 0
    /\ jobs = <<>>
    /\ heap = <<>>
    /\ conv = <<>>
    /\ sim = <<>>
    /\ files = <<>>
    /\ transfers = EmptyBag
    /\ delTimers = EmptyBag
    /\ calls = <<>>
    /\ resp = NoResponse

\* Date.now() moves on between two events
AdvanceClock ==
    /\ \E t \in Times : t > now /\ now' = t
    /\ UNCHANGED <<jobs, heap, conv, sim, files, transfers, delTimers, calls>>
    /\ resp' = NoResponse

\* what POST /api/convert answers to a request with this url
ConvertResponse(url) ==
    IF ~ValidUrl(url)
    THEN [code |-> 400, error |-> "Invalid YouTube URL"]
    ELSE [code |-> 200, jobId |-> NumToString(now), title |-> "Processing..."]

\* Convert with processConversion called before res.json
ConvertCallsFirst(url, quality) ==
    /\ resp' = [op |-> "convert", code |-> ConvertResponse(url).code]
    /\ IF ConvertResponse(url).code = 400
       THEN UNCHANGED state
       ELSE
            LET jobId == NumToString(now)
                ref == Len(heap) + 1
                job == [id |-> jobId,
                        status |-> "processing",
                        title |-> UnknownTitle,
                        quality |-> IF quality = Undefined THEN DefaultQuality ELSE quality,
                        progress |-> StartProgress,
                        error |-> Undefined,
                        progressIntervalId |-> TRUE]
            IN  /\ jobs' = MapSet(jobs, jobId, ref)
                /\ heap' = Append(heap, job)
                /\ sim' = Append(sim, [progress |-> StartProgress * Scale, start |-> now])
                /\ conv' = Append(conv, "metadata")
                /\ calls' = Append(calls, <<"setInterval", "metadata", "res.json">>)
                /\ UNCHANGED <<now, files, transfers, delTimers>>

\* POST /api/convert, with the synchronous part of processConversion and
\* simulateProgress that it calls
Convert(url, quality) ==
    /\ resp' = [op |-> "convert", code |-> ConvertResponse(url).code]
    /\ IF ConvertResponse(url).code = 400
       THEN UNCHANGED state
       ELSE
            LET jobId == NumToString(now)
                ref == Len(heap) + 1
                job == [id |-> jobId,
                        status |-> "processing",
                        title |-> UnknownTitle,
                        quality |-> IF quality = Undefined THEN DefaultQuality ELSE quality,
                        progress |-> StartProgress,
                        error |-> Undefined,
                        progressIntervalId |-> TRUE]
            IN  /\ jobs' = MapSet(jobs, jobId, ref)
                /\ heap' = Append(heap, job)
                /\ sim' = Append(sim, [progress |-> StartProgress * Scale, start |-> now])
                /\ conv' = Append(conv, "metadata")
                /\ calls' = Append(calls, <<"res.json", "setInterval", "metadata">>)
                /\ UNCHANGED <<now, files, transfers, delTimers>>

\* what GET /api/status/:jobId answers
StatusResponse(jobId) ==
    IF ~MapHas(jobs, jobId)
    THEN [code |-> 404, error |-> "Job not found"]
    ELSE LET job == heap[jobs[jobId]]
         IN  [code |-> 200,
              id |-> job.id, status |-> job.status, title |-> job.title,
              quality |-> job.quality, progress |-> job.progress,
              error |-> job.error]

\* GET /api/status/:jobId: it only answers
Status(jobId) ==
    /\ resp' = [op |-> "status", code |-> StatusResponse(jobId).code]
    /\ UNCHANGED state

Min(a, b) == IF a < b THEN a ELSE b

\* SimTick with the ceiling of 90 taken for the final 100
SimTickToHundred(ref, r) ==
    /\ heap[ref].progressIntervalId
    /\ now >= sim[ref].start + TickInterval
    /\ IF Terminal(heap[ref])
       THEN /\ heap' = [heap EXCEPT ![ref].progressIntervalId = FALSE]
            /\ calls' = [calls EXCEPT ![ref] = Append(@, "clearInterval")]
            /\ UNCHANGED <<sim, jobs>>
       ELSE IF sim[ref].progress < DoneProgress * Scale
       THEN LET p == Min(DoneProgress * Scale, sim[ref].progress + r)
            IN  /\ sim' = [sim EXCEPT ![ref].progress = p]
                /\ heap' = [heap EXCEPT ![ref].progress = p \div Scale]
                /\ jobs' = MapSet(jobs, heap[ref].id, ref)
                /\ UNCHANGED calls
       ELSE UNCHANGED <<sim, heap, jobs, calls>>
    /\ UNCHANGED <<now, conv, files, transfers, delTimers>>
    /\ resp' = NoResponse

\* the callback of setInterval in simulateProgress
SimTick(ref, r) ==
    /\ heap[ref].progressIntervalId
    /\ now >= sim[ref].start + TickInterval
    /\ IF Terminal(heap[ref])
       THEN /\ heap' = [heap EXCEPT ![ref].progressIntervalId = FALSE]
            /\ calls' = [calls EXCEPT ![ref] = Append(@, "clearInterval")]
            /\ UNCHANGED <<sim, jobs>>
       ELSE IF sim[ref].progress < CeilingProgress * Scale
       THEN LET p == Min(CeilingProgress * Scale, sim[ref].progress + r)
            IN  /\ sim' = [sim EXCEPT ![ref].progress = p]
                /\ heap' = [heap EXCEPT ![ref].progress = p \div Scale]
                /\ jobs' = MapSet(jobs, heap[ref].id, ref)
                /\ UNCHANGED calls
       ELSE UNCHANGED <<sim, heap, jobs, calls>>
    /\ UNCHANGED <<now, conv, files, transfers, delTimers>>
    /\ resp' = NoResponse

\* the first .then of processConversion: the metadata call resolved with info
MetadataResolved(ref, infoTitle) ==
    /\ conv[ref] = "metadata"
    /\ IF infoTitle # <<>>
       THEN /\ heap' = [heap EXCEPT ![ref].title = CleanTitle(infoTitle),
                                    ![ref].status = "processing",
                                    ![ref].progress = MetaProgress]
            /\ jobs' = MapSet(jobs, heap[ref].id, ref)
       ELSE UNCHANGED <<heap, jobs>>
    /\ conv' = [conv EXCEPT ![ref] = "extraction"]
    /\ calls' = [calls EXCEPT ![ref] = Append(@, "extraction")]
    /\ UNCHANGED <<now, sim, files, transfers, delTimers>>
    /\ resp' = NoResponse

\* the extraction provider writes (part of) the output file at outputPath
ProviderWrite(ref) ==
    /\ conv[ref] = "extraction"
    /\ files' = MapSet(files, ArtifactName(heap[ref].id), now)
    /\ UNCHANGED <<now, jobs, heap, conv, sim, transfers, delTimers, calls>>
    /\ resp' = NoResponse

\* `if (job && job.progressIntervalId) { clearInterval(...); delete ... }`:
\* the calls of job ref after it
Cleared(ref) ==
    IF heap[ref].progressIntervalId
    THEN [calls EXCEPT ![ref] = Append(@, "clearInterval")]
    ELSE calls

\* ExtractionResolved without `job.status = 'completed'`
ExtractionResolvedNoStatus(ref) ==
    /\ conv[ref] = "extraction"
    /\ calls' = Cleared(ref)
    /\ heap' = [heap EXCEPT ![ref].progressIntervalId = FALSE,
                            ![ref].progress = DoneProgress]
    /\ jobs' = MapSet(jobs, heap[ref].id, ref)
    /\ conv' = [conv EXCEPT ![ref] = "done"]
    /\ UNCHANGED <<now, sim, files, transfers, delTimers>>
    /\ resp' = NoResponse

\* the second .then of processConversion: the extraction call resolved
ExtractionResolved(ref) ==
    /\ conv[ref] = "extraction"
    /\ calls' = Cleared(ref)
    /\ heap' = [heap EXCEPT ![ref].progressIntervalId = FALSE,
                            ![ref].status = "completed",
                            ![ref].progress = DoneProgress]
    /\ jobs' = MapSet(jobs, heap[ref].id, ref)
    /\ conv' = [conv EXCEPT ![ref] = "done"]
    /\ UNCHANGED <<now, sim, files, transfers, delTimers>>
    /\ resp' = NoResponse

\* ConversionFailed without the clearInterval of the simulator
ConversionFailedKeepsTimer(ref, message, unlinkFails) ==
    /\ UNCHANGED calls
    /\ heap' = [heap EXCEPT ![ref].status = "error",
                            ![ref].error = message]
    /\ jobs' = MapSet(jobs, heap[ref].id, ref)
    /\ conv' = [conv EXCEPT ![ref] = "done"]
    /\ LET outputPath == ArtifactName(heap[ref].id)
       IN  files' = IF MapHas(files, outputPath) /\ ~unlinkFails
                    THEN MapDelete(files, outputPath)
                    ELSE files
    /\ UNCHANGED <<now, sim, transfers, delTimers>>
    /\ resp' = ErrorLogged

\* ConversionFailed without the clean-up of the output file
ConversionFailedKeepsFile(ref, message, unlinkFails) ==
    /\ calls' = Cleared(ref)
    /\ heap' = [heap EXCEPT ![ref].progressIntervalId = FALSE,
                            ![ref].status = "error",
                            ![ref].error = message]
    /\ jobs' = MapSet(jobs, heap[ref].id, ref)
    /\ conv' = [conv EXCEPT ![ref] = "done"]
    /\ UNCHANGED <<now, sim, files, transfers, delTimers>>
    /\ resp' = ErrorLogged

\* the .catch of processConversion; unlinkFails: fs.unlinkSync throws
ConversionFailed(ref, message, unlinkFails) ==
    /\ calls' = Cleared(ref)
    /\ heap' = [heap EXCEPT ![ref].progressIntervalId = FALSE,
                            ![ref].status = "error",
                            ![ref].error = message]
    /\ jobs' = MapSet(jobs, heap[ref].id, ref)
    /\ conv' = [conv EXCEPT ![ref] = "done"]
    /\ LET outputPath == ArtifactName(heap[ref].id)
       IN  files' = IF MapHas(files, outputPath) /\ ~unlinkFails
                    THEN MapDelete(files, outputPath)
                    ELSE files
    /\ UNCHANGED <<now, sim, transfers, delTimers>>
    /\ resp' = ErrorLogged

\* MetadataRejected with the rejection swallowed before the extraction
MetadataRejectedContinues(ref, unlinkFails) ==
    /\ conv[ref] = "metadata"
    /\ conv' = [conv EXCEPT ![ref] = "extraction"]
    /\ calls' = [calls EXCEPT ![ref] = Append(@, "extraction")]
    /\ UNCHANGED <<now, jobs, heap, sim, files, transfers, delTimers>>
    /\ resp' = NoResponse

\* the metadata call rejected
MetadataRejected(ref, unlinkFails) ==
    /\ conv[ref] = "metadata"
    /\ ConversionFailed(ref, MetaError, unlinkFails)

\* the extraction call rejected
ExtractionRejected(ref, unlinkFails) ==
    /\ conv[ref] = "extraction"
    /\ ConversionFailed(ref, ExtractError, unlinkFails)

Pending == BagCardinality(transfers) + BagCardinality(delTimers)

\* DownloadResponse without the fs.existsSync check
DownloadResponseNoFileCheck(jobId) ==
    IF ~MapHas(jobs, jobId) \/ heap[jobs[jobId]].status # "completed"
    THEN [code |-> 404, error |-> "File not ready or not found"]
    ELSE [code |-> 200, file |-> ArtifactName(jobId),
          filename |-> heap[jobs[jobId]].title \o Mp3Ext]

\* what GET /api/download/:jobId answers
DownloadResponse(jobId) ==
    IF ~MapHas(jobs, jobId) \/ heap[jobs[jobId]].status # "completed"
    THEN [code |-> 404, error |-> "File not ready or not found"]
    ELSE IF ~MapHas(files, ArtifactName(jobId))
    THEN [code |-> 404, error |-> "File not found"]
    ELSE [code |-> 200, file |-> ArtifactName(jobId),
          filename |-> heap[jobs[jobId]].title \o Mp3Ext]

\* GET /api/download/:jobId, up to the start of the transfer
Download(jobId) ==
    /\ resp' = [op |-> "download", code |-> DownloadResponse(jobId).code]
    /\ IF DownloadResponse(jobId).code = 404
       THEN UNCHANGED state
       ELSE /\ transfers' = transfers (+) SetToBag({jobId})
            /\ UNCHANGED <<now, jobs, heap, conv, sim, files, delTimers, calls>>

\* the callback of res.download: the transfer ended, with or without err
TransferDone(jobId, err) ==
    /\ BagIn(jobId, transfers)
    /\ transfers' = transfers (-) SetToBag({jobId})
    /\ delTimers' = delTimers (+) SetToBag({[id |-> jobId, due |-> now + GracePeriod]})
    /\ UNCHANGED <<now, jobs, heap, conv, sim, files, calls>>
    /\ resp' = IF err THEN ErrorLogged ELSE NoResponse

\* DeleteAfterDownload without its jobs.delete
DeleteAfterDownloadKeepsJob(t, unlinkFails) ==
    /\ BagIn(t, delTimers)
    /\ now >= t.due
    /\ delTimers' = delTimers (-) SetToBag({t})
    /\ LET filePath == ArtifactName(t.id)
       IN  IF MapHas(files, filePath) /\ ~unlinkFails
           THEN files' = MapDelete(files, filePath)
           ELSE UNCHANGED files
    /\ UNCHANGED <<now, jobs, heap, conv, sim, transfers, calls>>
    /\ resp' = IF MapHas(files, ArtifactName(t.id)) /\ unlinkFails
               THEN ErrorLogged ELSE NoResponse

\* DeleteAfterDownload without the fs.existsSync check: unlinkSync throws
\* when the file is missing
DeleteAfterDownloadNoExistsCheck(t, unlinkFails) ==
    /\ BagIn(t, delTimers)
    /\ now >= t.due
    /\ delTimers' = delTimers (-) SetToBag({t})
    /\ LET filePath == ArtifactName(t.id)
       IN  IF ~MapHas(files, filePath) \/ unlinkFails
           THEN /\ UNCHANGED <<files, jobs>>
                /\ resp' = ErrorLogged
           ELSE /\ files' = MapDelete(files, filePath)
                /\ jobs' = MapDelete(jobs, t.id)
                /\ resp' = NoResponse
    /\ UNCHANGED <<now, heap, conv, sim, transfers, calls>>

\* DeleteAfterDownload run without waiting for the timeout
DeleteAfterDownloadAtOnce(t, unlinkFails) ==
    /\ BagIn(t, delTimers)
    /\ delTimers' = delTimers (-) SetToBag({t})
    /\ LET filePath == ArtifactName(t.id)
       IN  IF MapHas(files, filePath)
           THEN IF unlinkFails
                THEN UNCHANGED <<files, jobs>>
                ELSE /\ files' = MapDelete(files, filePath)
                     /\ jobs' = MapDelete(jobs, t.id)
           ELSE /\ jobs' = MapDelete(jobs, t.id)
                /\ UNCHANGED files
    /\ UNCHANGED <<now, heap, conv, sim, transfers, calls>>
    /\ resp' = IF MapHas(files, ArtifactName(t.id)) /\ unlinkFails
               THEN ErrorLogged ELSE NoResponse

\* the callback of setTimeout in the download route
DeleteAfterDownload(t, unlinkFails) ==
    /\ BagIn(t, delTimers)
    /\ now >= t.due
    /\ delTimers' = delTimers (-) SetToBag({t})
    /\ LET filePath == ArtifactName(t.id)
       IN  IF MapHas(files, filePath)
           THEN IF unlinkFails
                THEN UNCHANGED <<files, jobs>>
                ELSE /\ files' = MapDelete(files, filePath)
                     /\ jobs' = MapDelete(jobs, t.id)
           ELSE /\ jobs' = MapDelete(jobs, t.id)
                /\ UNCHANGED files
    /\ UNCHANGED <<now, heap, conv, sim, transfers, calls>>
    /\ resp' = IF MapHas(files, ArtifactName(t.id)) /\ unlinkFails
               THEN ErrorLogged ELSE NoResponse

\* Expired with the threshold itself counted as too old
ExpiredAtThreshold(file) == now - files[file] >= RetentionAge

\* the files of a cleanup run that are older than the threshold
Expired(file) == now - files[file] > RetentionAge

\* the callback of the cleanup setInterval; failing: the files whose
\* statSync or unlinkSync throws
Cleanup(failing) ==
    LET deleted == {f \in DOMAIN files : Expired(f) /\ f \notin failing}
    IN  /\ now >= CleanupInterval
        /\ files' = [f \in DOMAIN files \ deleted |-> files[f]]
        /\ jobs' = [k \in DOMAIN jobs \ {ParseName(f) : f \in deleted} |-> jobs[k]]
        /\ UNCHANGED <<now, heap, conv, sim, transfers, delTimers, calls>>
        /\ resp' = IF failing # {} THEN ErrorLogged ELSE NoResponse

JobIds == {NumToString(t) : t \in Times}

\* a simulator is followed for MaxTicks increments past its start value
TickLimit == (StartProgress + RandomRange * MaxTicks) * Scale

\* Spec: MaxJobs jobs, whose ids may collide; each simulator is followed for
\* its first increments and every request leaves the quality out.
Next ==
    \/ AdvanceClock
    \/ \E u \in UrlInputs :
          (ValidUrl(u) => Len(heap) < MaxJobs) /\ Convert(u, Undefined)
    \/ \E id \in JobIds : Status(id)
    \/ \E ref \in Refs, r \in RandIncs : sim[ref].progress < TickLimit /\ SimTick(ref, r)
    \/ \E ref \in Refs, t \in TitleInputs : MetadataResolved(ref, t)
    \/ \E ref \in Refs, f \in BOOLEAN : MetadataRejected(ref, f)
    \/ \E ref \in Refs : ProviderWrite(ref)
    \/ \E ref \in Refs : ExtractionResolved(ref)
    \/ \E ref \in Refs, f \in BOOLEAN : ExtractionRejected(ref, f)
    \/ \E id \in JobIds :
          (DownloadResponse(id).code = 200 => Pending < MaxDownloads) /\ Download(id)
    \/ \E id \in JobIds, err \in BOOLEAN : TransferDone(id, err)
    \/ \E t \in BagToSet(delTimers), f \in BOOLEAN : DeleteAfterDownload(t, f)
    \/ \E failing \in SUBSET DOMAIN files : Cleanup(failing)

Spec == Init /\ [][Next]_vars

\* SpecSolo: SoloJobs jobs, each simulator followed over its whole range.
SoloNext ==
    \/ AdvanceClock
    \/ \E u \in UrlInputs, q \in QualityInputs :
          (ValidUrl(u) => Len(heap) < SoloJobs) /\ Convert(u, q)
    \/ \E id \in JobIds : Status(id)
    \/ \E ref \in Refs, r \in RandIncs : SimTick(ref, r)
    \/ \E ref \in Refs, t \in TitleInputs : MetadataResolved(ref, t)
    \/ \E ref \in Refs, f \in BOOLEAN : MetadataRejected(ref, f)
    \/ \E ref \in Refs : ProviderWrite(ref)
    \/ \E ref \in Refs : ExtractionResolved(ref)
    \/ \E ref \in Refs, f \in BOOLEAN : ExtractionRejected(ref, f)
    \/ \E id \in JobIds :
          (DownloadResponse(id).code = 200 => Pending < MaxDownloads) /\ Download(id)
    \/ \E id \in JobIds, err \in BOOLEAN : TransferDone(id, err)
    \/ \E t \in BagToSet(delTimers), f \in BOOLEAN : DeleteAfterDownload(t, f)
    \/ \E failing \in SUBSET DOMAIN files : Cleanup(failing)

SpecSolo == Init /\ [][SoloNext]_vars

\* the instants the clock is observed at in SpecLife: around the end of the
\* grace period and past the retention threshold of every artifact
LastTime == RetentionAge + GracePeriod + 2 * TickInterval
LateTimes == {0, TickInterval, GracePeriod, GracePeriod + TickInterval, LastTime}
LifeIds == {NumToString(t) : t \in LateTimes}

\* Date.now() moves on to an instant of T
Elapse(T) ==
    /\ \E t \in T : t > now /\ now' = t
    /\ UNCHANGED <<jobs, heap, conv, sim, files, transfers, delTimers, calls>>
    /\ resp' = NoResponse

\* a provider call of job ref resolves or rejects
Outcome(ref) ==
    \/ \E t \in TitleInputs : MetadataResolved(ref, t)
    \/ \E f \in BOOLEAN : MetadataRejected(ref, f)
    \/ ExtractionResolved(ref)
    \/ \E f \in BOOLEAN : ExtractionRejected(ref, f)

\* SpecLife: the whole life of SoloJobs jobs, with up to MaxRetries downloads
\* pending; jobs are accepted and artifacts written before LastTime, so that
\* the clock outlasts every grace period and every artifact's retention.
LifeNext ==
    \/ Elapse(LateTimes)
    \/ \E u \in UrlInputs :
          (ValidUrl(u) => Len(heap) < SoloJobs /\ now < LastTime) /\ Convert(u, Undefined)
    \/ \E id \in LifeIds : Status(id)
    \/ \E ref \in Refs, r \in RandIncs : sim[ref].progress < TickLimit /\ SimTick(ref, r)
    \/ \E ref \in Refs, t \in TitleInputs : MetadataResolved(ref, t)
    \/ \E ref \in Refs, f \in BOOLEAN : MetadataRejected(ref, f)
    \/ \E ref \in Refs : now < LastTime /\ ProviderWrite(ref)
    \/ \E ref \in Refs : ExtractionResolved(ref)
    \/ \E ref \in Refs, f \in BOOLEAN : ExtractionRejected(ref, f)
    \/ \E id \in LifeIds :
          (DownloadResponse(id).code = 200 => Pending < MaxRetries) /\ Download(id)
    \/ \E id \in LifeIds, err \in BOOLEAN : TransferDone(id, err)
    \/ \E t \in BagToSet(delTimers), f \in BOOLEAN : DeleteAfterDownload(t, f)
    \/ \E failing \in SUBSET DOMAIN files : Cleanup(failing)

\* what the event loop, the timers, the provider and the network guarantee:
\* time passes, every provider call and every transfer ends, a timeout that
\* is due fires, and the cleanup interval keeps running (without file-system
\* errors in the end)
LifeFair ==
    /\ WF_vars(Elapse(LateTimes))
    /\ \A ref \in 1..SoloJobs : WF_vars(ref \in Refs /\ Outcome(ref))
    /\ WF_vars(\E id \in LifeIds, err \in BOOLEAN : TransferDone(id, err))
    /\ WF_vars(\E t \in BagToSet(delTimers), f \in BOOLEAN : DeleteAfterDownload(t, f))
    /\ WF_vars(Cleanup({}))

SpecLife == Init /\ [][LifeNext]_vars /\ LifeFair

\* ---- the claims ---------------------------------------------------------

\* what GET /api/status reports for the job object ref: the registry entry
\* under the id the job was given
Reported(ref) ==
    LET a == StatusResponse(heap[ref].id)
    IN  IF a.code = 404 THEN <<"not found">>
        ELSE <<a.title, a.progress, a.status, a.error>>

\* a step of the simulator of job ref
TickOf(ref) == \E r \in RandIncs : SimTick(ref, r)

\* a step of the conversion or of the simulator of job ref
StepOf(ref) ==
    \/ TickOf(ref)
    \/ \E t \in TitleInputs : MetadataResolved(ref, t)
    \/ \E f \in BOOLEAN : MetadataRejected(ref, f)
    \/ ExtractionResolved(ref)
    \/ \E f \in BOOLEAN : ExtractionRejected(ref, f)

\* C1: the progress of a job never decreases from one state to the next and
\* never exceeds 100.
C1_ProgressNeverDecreases ==
    [][\A ref \in Refs :
          /\ heap'[ref].progress >= heap[ref].progress
          /\ heap'[ref].progress <= DoneProgress]_vars

\* C2: once the status reported for a job id is completed or error, no step
\* changes the status reported for that id.
C2_TerminalStatusFrozen ==
    [][\A id \in DOMAIN jobs :
          (Terminal(heap[jobs[id]]) /\ id \in DOMAIN jobs')
              => heap'[jobs'[id]].status = heap[jobs[id]].status]_vars

\* C3: the jobs created by accepted requests have pairwise different ids.
C3_JobIdsUnique ==
    \A r1, r2 \in Refs : r1 # r2 => heap[r1].id # heap[r2].id

\* C4: a job that is processing has progress at most 90, and a job has
\* progress 100 exactly when it is completed.
C4_ProgressWithinStatus ==
    \A ref \in Refs :
        /\ heap[ref].status = "processing" => heap[ref].progress <= CeilingProgress
        /\ heap[ref].progress = DoneProgress <=> heap[ref].status = "completed"

\* C4 witness: a simulator has reached the ceiling while its job is processing
C4_AtCeiling ==
    \E ref \in Refs :
        /\ heap[ref].status = "processing"
        /\ sim[ref].progress = CeilingProgress * Scale
        /\ heap[ref].progress = CeilingProgress

\* C5: once the job under an id is completed or error, a simulator tick
\* changes neither that job nor the registry.
C5_NoTickAfterTerminal ==
    [][\A id \in DOMAIN jobs :
          (Terminal(heap[jobs[id]]) /\ \E ref \in Refs : TickOf(ref))
              => /\ jobs' = jobs
                 /\ heap'[jobs[id]] = heap[jobs[id]]]_vars

\* C6: a step of one job's conversion or simulator leaves what is reported
\* for every other job unchanged.
C6_NoInterference ==
    [][\A ref \in Refs :
          StepOf(ref) =>
              \A other \in Refs \ {ref} : Reported(other)' = Reported(other)]_vars

\* no two jobs were given the same id
IdsDiffer == \A r1, r2 \in Refs : r1 # r2 => heap[r1].id # heap[r2].id

Kept(file) ==
    /\ MapHas(files', file) /\ files'[file] = files[file]
    /\ LET id == ParseName(file)
       IN  MapHas(jobs, id) =>
              /\ MapHas(jobs', id)
              /\ heap'[jobs'[id]] = heap[jobs[id]]

\* the artifact `file` and the record of its job are gone after the step
Swept(file) ==
    /\ ~MapHas(files', file)
    /\ ~MapHas(jobs', ParseName(file))

\* C8 as claimed: a cleanup run deletes every artifact older than the
\* threshold with its Job record, and keeps every other artifact and its
\* Job record.
C8_SweepsEveryExpired ==
    [][\A failing \in SUBSET DOMAIN files :
          Cleanup(failing) =>
              \A f \in DOMAIN files :
                  IF now - files[f] > RetentionAge THEN Swept(f) ELSE Kept(f)]_vars

\* C8 as amended: a cleanup run deletes every artifact older than the
\* threshold whose statSync and unlinkSync do not throw, with its Job
\* record, and keeps every other artifact and its Job record.
C8_SweepsExpiredUnlessThrows ==
    [][\A failing \in SUBSET DOMAIN files :
          Cleanup(failing) =>
              \A f \in DOMAIN files :
                  IF now - files[f] > RetentionAge /\ f \notin failing
                  THEN Swept(f) ELSE Kept(f)]_vars

\* C8 witness: a failed job, never downloadable, lost its left-over artifact
\* and its record to a cleanup run that kept an artifact exactly as old as
\* the threshold
C8_SweptAndKept ==
    /\ IdsDiffer
    /\ \E ref \in Refs :
          /\ heap[ref].status = "error"
          /\ ~MapHas(jobs, heap[ref].id)
          /\ ~MapHas(files, ArtifactName(heap[ref].id))
    /\ \E f \in DOMAIN files :
          /\ now - files[f] = RetentionAge
          /\ MapHas(jobs, ParseName(f))

\* the claim's three cases of a download that is to be refused
NotDownloadable(id) ==
    \/ ~MapHas(jobs, id)
    \/ heap[jobs[id]].status # "completed"
    \/ ~MapHas(files, ArtifactName(id))

\* C9: a download of a job that is absent, not completed or without its
\* artifact is answered 404, schedules nothing and changes nothing.
C9_DownloadRefused ==
    [][resp'.op = "download" =>
          \A id \in JobIds :
              (NotDownloadable(id) /\ Download(id))
                  => /\ resp'.code = 404
                     /\ UNCHANGED state]_vars

\* C9 witness: a download was refused while a completed job has no artifact
C9_RefusedWithoutArtifact ==
    /\ resp = [op |-> "download", code |-> 404]
    /\ \E id \in DOMAIN jobs :
          /\ heap[jobs[id]].status = "completed"
          /\ ~MapHas(files, ArtifactName(id))

\* the claim's invalid url: missing, or with neither host marker
InvalidUrl(u) ==
    \/ ~u.given
    \/ ~(Includes(u.text, YoutubeCom) \/ Includes(u.text, YoutuBe))

InvalidUrls == {u \in UrlInputs : InvalidUrl(u)}

CallsOf(ref, c) == {i \in 1..Len(calls[ref]) : calls[ref][i] = c}

ProviderCalls(ref) == CallsOf(ref, "metadata") \cup CallsOf(ref, "extraction")

\* C11: for every accepted request the response with the job id is sent
\* before any provider call of the job is issued, and when the response has
\* just been sent the job's metadata call has not completed.
C11_ResponseBeforeProviderCalls ==
    /\ \A ref \in Refs :
          /\ Cardinality(CallsOf(ref, "res.json")) = 1
          /\ \A i \in CallsOf(ref, "res.json"), j \in ProviderCalls(ref) : i < j
    /\ resp = [op |-> "convert", code |-> 200] =>
          /\ heap # <<>>
          /\ conv[Len(heap)] = "metadata"
          /\ ProviderCalls(Len(heap)) # {}

\* C11 witness: a request has just been answered with a job id while the
\* extraction call of an earlier job is in flight
C11_AnsweredWhileExtracting ==
    /\ resp = [op |-> "convert", code |-> 200]
    /\ Len(heap) = 2
    /\ conv[1] = "extraction"
    /\ CallsOf(2, "metadata") # {}

\* C12: every job that is created is eventually absent from the registry.
C12_EveryJobDeleted ==
    \A i \in 1..SoloJobs :
        (i \in Refs) ~> (i \in Refs /\ ~MapHas(jobs, heap[i].id))

\* C13: the simulator's timer of a job has been cancelled exactly once when
\* the job is completed or error, and is running and was never cancelled
\* while the job is processing.
C13_TimerCancelledOnce ==
    \A ref \in Refs :
        IF Terminal(heap[ref])
        THEN /\ Cardinality(CallsOf(ref, "clearInterval")) = 1
             /\ ~heap[ref].progressIntervalId
        ELSE /\ CallsOf(ref, "clearInterval") = {}
             /\ heap[ref].progressIntervalId

\* C13 witness: one job failed in its metadata call and another one in its
\* extraction call, after their simulators had ticked
C13_BothFailuresCancelled ==
    \E r1, r2 \in Refs :
        /\ heap[r1].error = MetaError
        /\ heap[r2].error = ExtractError
        /\ sim[r1].progress > StartProgress * Scale
        /\ sim[r2].progress > StartProgress * Scale
        /\ Cardinality(CallsOf(r1, "clearInterval")) = 1
        /\ Cardinality(CallsOf(r2, "clearInterval")) = 1

\* the failure handling of job ref ran for a call that failed with message
FailedWith(ref, message, unlinkFails) ==
    /\ heap'[ref].status = "error"
    /\ heap'[ref].error = message
    /\ \/ ~MapHas(files', ArtifactName(heap[ref].id))
       \/ unlinkFails /\ MapHas(files, ArtifactName(heap[ref].id))

\* C14: when the metadata call or the extraction call of a job fails, the
\* job becomes error with the failure's message, and no artifact is left at
\* the job's path unless deleting it throws; the job becomes error then too.
C14_FailureRecordedAndCleaned ==
    [][\A ref \in Refs, f \in BOOLEAN :
          /\ MetadataRejected(ref, f) => FailedWith(ref, MetaError, f)
          /\ ExtractionRejected(ref, f) => FailedWith(ref, ExtractError, f)]_vars

\* C14 witness: a job whose extraction failed is error and its partial
\* artifact, which could not be deleted, is still there
C14_ErrorWithLeftOver ==
    /\ IdsDiffer
    /\ \E r1, r2 \in Refs :
          /\ heap[r1].error = ExtractError
          /\ heap[r1].status = "error"
          /\ MapHas(files, ArtifactName(heap[r1].id))
          /\ heap[r2].error = ExtractError
          /\ ~MapHas(files, ArtifactName(heap[r2].id))

\* C15: the extraction call of a job is issued only by the continuation of
\* its resolved metadata call, at most once; a rejected metadata call puts
\* the job in error, and for such a job no extraction call is ever issued.
C15_ExtractionAfterMetadata ==
    [][\A ref \in Refs :
          /\ CallsOf(ref, "extraction")' # CallsOf(ref, "extraction")
                => /\ \E t \in TitleInputs : MetadataResolved(ref, t)
                   /\ CallsOf(ref, "extraction") = {}
          /\ (\E f \in BOOLEAN : MetadataRejected(ref, f))
                => heap'[ref].status = "error"
          /\ heap'[ref].error = MetaError
                => CallsOf(ref, "extraction")' = {}]_vars

\* C15 witness: one job is in error after its metadata call failed, with no
\* extraction call, and the extraction call of another job has been issued
C15_OneRejectedOneExtracting ==
    \E r1, r2 \in Refs :
        /\ heap[r1].error = MetaError
        /\ CallsOf(r1, "extraction") = {}
        /\ CallsOf(r2, "metadata") = {3}
        /\ CallsOf(r2, "extraction") = {4}

\* C16: a delayed deletion that finds the artifact already gone logs no
\* error and leaves neither the artifact nor the Job record; a cleanup run
\* that comes after a deletion of both leaves both gone, and logs no error
\* unless the file system fails on some other file.
C16_SecondDeletionTolerated ==
    [][/\ \A t \in BagToSet(delTimers), f \in BOOLEAN :
             (DeleteAfterDownload(t, f) /\ ~MapHas(files, ArtifactName(t.id)))
                 => /\ resp' # ErrorLogged
                    /\ ~MapHas(files', ArtifactName(t.id))
                    /\ ~MapHas(jobs', t.id)
       /\ \A failing \in SUBSET DOMAIN files, id \in LifeIds :
             ( /\ Cleanup(failing)
               /\ ~MapHas(files, ArtifactName(id))
               /\ ~MapHas(jobs, id) )
                 => /\ failing = {} => resp' # ErrorLogged
                    /\ ~MapHas(files', ArtifactName(id))
                    /\ ~MapHas(jobs', id)]_vars

\* C16 witness: the second delayed deletion of a job is due after the first
\* one, and not the cleanup, has removed the artifact and the Job record
C16_SecondDeletionDue ==
    \E t \in BagToSet(delTimers) :
        /\ now >= t.due
        /\ now <= RetentionAge
        /\ ~MapHas(files, ArtifactName(t.id))
        /\ ~MapHas(jobs, t.id)
        /\ \E ref \in Refs : heap[ref].id = t.id /\ heap[ref].status = "completed"

\* C17: when the delayed deletion fires and unlinking the artifact throws,
\* the Job record is removed from the registry all the same.
C17_RecordRemovedWhenUnlinkThrows ==
    [][\A t \in BagToSet(delTimers) :
          (DeleteAfterDownload(t, TRUE) /\ MapHas(files, ArtifactName(t.id)))
              => ~MapHas(jobs', t.id)]_vars

\* C18: a tick of the simulator or a continuation of the conversion of a
\* job whose record has been deleted does not put a record under its id.
C18_NoReinsertion ==
    [][\A ref \in Refs :
          (StepOf(ref) /\ ~MapHas(jobs, heap[ref].id))
              => ~MapHas(jobs', heap[ref].id)]_vars

\* C19 as claimed: a delayed deletion removes nothing while a later transfer
\* of the same job finished less than the grace period ago (its own delayed
\* deletion is not due yet).
C19_GraceAfterLastTransfer ==
    [][\A t \in BagToSet(delTimers) :
          ( /\ \E f \in BOOLEAN : DeleteAfterDownload(t, f)
            /\ files' # files \/ jobs' # jobs )
              => \A u \in BagToSet(delTimers) : u.id = t.id => now >= u.due]_vars

\* C19 as amended: the end of a transfer deletes nothing and schedules a
\* deletion one grace period later, and that deletion does not run before
\* the grace period after its own transfer is over.
C19_GraceAfterOwnTransfer ==
    [][/\ \A id \in LifeIds, err \in BOOLEAN :
             TransferDone(id, err)
                 => /\ files' = files /\ jobs' = jobs
                    /\ \E t \in BagToSet(delTimers') :
                          /\ t.id = id /\ t.due = now + GracePeriod
                          /\ CopiesIn(t, delTimers') = CopiesIn(t, delTimers) + 1
       /\ \A t \in BagToSet(delTimers) :
             (\E f \in BOOLEAN : DeleteAfterDownload(t, f)) => now' >= t.due]_vars

\* C19 witness: the artifact and the record of a job are gone before the
\* delayed deletion of its later download is due
C19_GoneBeforeSecondDue ==
    \E t \in BagToSet(delTimers) :
        /\ now < t.due
        /\ now >= GracePeriod
        /\ now <= RetentionAge
        /\ ~MapHas(files, ArtifactName(t.id))
        /\ ~MapHas(jobs, t.id)
        /\ \E ref \in Refs : heap[ref].id = t.id /\ heap[ref].status = "completed"

\* C20: every created job is eventually completed or error, given that
\* every provider call ends.
C20_EveryJobEnds ==
    \A i \in 1..SoloJobs :
        (i \in Refs) ~> (i \in Refs /\ Terminal(heap[i]))

\* C20 witness: a job has left processing through each of its calls: the
\* metadata call resolved and the extraction call resolved
C20_LeftProcessing ==
    \E ref \in Refs :
        /\ conv[ref] = "done"
        /\ heap[ref].status = "completed"
        /\ CallsOf(ref, "extraction") # {}
        /\ now > 0

====
